---- MODULE Spec2Model ----
(***************************************************************************)
(* The GoodMorning messages API (Express server over a PostgreSQL pool).   *)
(* State: the process' start-up position, the messages table with its id   *)
(* sequence, the requests whose handler is suspended on `await             *)
(* pool.query(...)`, and the last response written.                        *)
(***************************************************************************)
EXTENDS Integers, Sequences, FiniteSets, TLC

\* ------------------------------------------------------------------ bounds
\* Requests of a run of Spec, and those of them in flight together.
MaxReqs == 3
MaxInFlight == 2
\* Distinct values of CURRENT_TIMESTAMP.
MaxClock == 2
\* Requests of a run of SpecSequential.
MaxSeqReqs == 2
\* Termination signals delivered to one process, and the requests of a run with
\* signals.
MaxSignals == 2
MaxSigReqs == 2
\* The requests of a run against a pool that other requests keep busy.
MaxPoolReqs == 3
\* The requests of a run over all routes.
MaxRouteReqs == 2
\* The fetch() calls of one visit of the messages page.
MaxPageCalls == 4

\* --------------------------------------------------------------- constants
NameMax == 255
EmailMax == 255
Int4Max == 2147483647
\* new Pool({ max: 20 })
PoolMax == 20
Int4Min == -Int4Max - 1

\* ----------------------------------------------------------------- strings
\* A string is a sequence of one-character strings.
Rep(c, n) == [i \in 1..n |-> c]

\* The characters String.prototype.trim removes: the WhiteSpace and
\* LineTerminator code points. Those without an escape are written by their
\* code point, which stands for the one character.
JsSpaces ==
  {"\t", "\n", "U+000B", "\f", "\r", " ", "U+00A0", "U+1680", "U+2000", "U+2001",
   "U+2002", "U+2003", "U+2004", "U+2005", "U+2006", "U+2007", "U+2008", "U+2009",
   "U+200A", "U+2028", "U+2029", "U+202F", "U+205F", "U+3000", "U+FEFF"}
IsJsSpace(c) == c \in JsSpaces

RECURSIVE TrimStart(_)
TrimStart(s) ==
  IF s = <<>> THEN <<>>
  ELSE IF IsJsSpace(Head(s)) THEN TrimStart(Tail(s)) ELSE s

RECURSIVE TrimEnd(_)
TrimEnd(s) ==
  IF s = <<>> THEN <<>>
  ELSE IF IsJsSpace(s[Len(s)]) THEN TrimEnd(SubSeq(s, 1, Len(s) - 1)) ELSE s

\* A trim that forgets the trailing white space.
TrimLeadingOnly(s) == TrimStart(s)

\* name.trim()
Trim(s) == TrimEnd(TrimStart(s))

\* ------------------------------------------------------------- JSON values
\* A field of req.body: absent (undefined), null, a string or a number.
Undef == [t |-> "undef", s |-> <<>>, n |-> 0]
Null == [t |-> "null", s |-> <<>>, n |-> 0]
Str(s) == [t |-> "str", s |-> s, n |-> 0]
Num(n) == [t |-> "num", s |-> <<>>, n |-> n]

\* !v
Falsy(v) ==
  \/ v.t \in {"undef", "null"}
  \/ v.t = "str" /\ Len(v.s) = 0
  \/ v.t = "num" /\ v.n = 0

\* v.length > max : the length of a number is undefined, and the comparison false
LengthOver(v, max) == v.t = "str" /\ Len(v.s) > max

\* v.trim() throws a TypeError unless v is a string
TrimThrows(v) == v.t # "str"

\* --------------------------------------------------- int4 input of PostgreSQL
Digits == {"0", "1", "2", "3", "4", "5", "6", "7", "8", "9"}
HexLetters == {"a", "b", "c", "d", "e", "f", "A", "B", "C", "D", "E", "F"}
DigitVal(c) ==
  CASE c = "0" -> 0 [] c = "1" -> 1 [] c = "2" -> 2 [] c = "3" -> 3 [] c = "4" -> 4
    [] c = "5" -> 5 [] c = "6" -> 6 [] c = "7" -> 7 [] c = "8" -> 8 [] c = "9" -> 9
    [] c \in {"a", "A"} -> 10 [] c \in {"b", "B"} -> 11 [] c \in {"c", "C"} -> 12
    [] c \in {"d", "D"} -> 13 [] c \in {"e", "E"} -> 14 [] c \in {"f", "F"} -> 15

\* The digits of a radix.
DigitsOf(radix) ==
  IF radix = 16 THEN Digits \cup HexLetters
  ELSE {c \in Digits : DigitVal(c) < radix}

\* isspace() of the server: space, \t, \n, \v, \f and \r.
IsPgSpace(c) == c \in {" ", "\t", "\n", "U+000B", "\f", "\r"}

RECURSIVE PgSkipLeft(_)
PgSkipLeft(s) ==
  IF s = <<>> THEN <<>>
  ELSE IF IsPgSpace(Head(s)) THEN PgSkipLeft(Tail(s)) ELSE s

RECURSIVE PgSkipRight(_)
PgSkipRight(s) ==
  IF s = <<>> THEN <<>>
  ELSE IF IsPgSpace(s[Len(s)]) THEN PgSkipRight(SubSeq(s, 1, Len(s) - 1)) ELSE s

PgErr == [ok |-> FALSE, v |-> 0]

\* The digits are accumulated as a negative number so that the whole int4 range
\* is reached without leaving it; acc = 1 marks overflow.
RECURSIVE PgAccum(_, _, _)
PgAccum(ds, acc, radix) ==
  IF ds = <<>> THEN acc
  ELSE LET d == DigitVal(Head(ds)) IN
       IF acc < (Int4Min + d + (radix - 1)) \div radix THEN 1
       ELSE PgAccum(Tail(ds), acc * radix - d, radix)

\* The int4 input grammars: decimal digits only (servers up to version 15), or
\* also 0x, 0o and 0b literals and underscores between digits (version 16 on).
PgVersions == {"15", "16"}

\* The radix of the unsigned text b and the text after its prefix.
PgRadix(b, ver) ==
  IF ver = "16" /\ Len(b) >= 2 /\ b[1] = "0" /\ b[2] \in {"x", "X", "o", "O", "b", "B"}
  THEN [radix |-> IF b[2] \in {"x", "X"} THEN 16 ELSE IF b[2] \in {"o", "O"} THEN 8 ELSE 2,
        rest |-> SubSeq(b, 3, Len(b)), prefixed |-> TRUE]
  ELSE [radix |-> 10, rest |-> b, prefixed |-> FALSE]

\* The digits of a radix, with underscores where version 16 allows them: each
\* followed by a digit, and none at the start of a decimal number.
PgDigitsOk(ds, radix, prefixed, ver) ==
  /\ ds # <<>>
  /\ \A i \in 1..Len(ds) :
       \/ ds[i] \in DigitsOf(radix)
       \/ /\ ver = "16" /\ ds[i] = "_"
          /\ i < Len(ds) /\ ds[i + 1] \in DigitsOf(radix)
          /\ i > 1 \/ prefixed

\* The value of the text parameter $1 compared to the integer column id:
\* optional blanks, an optional sign, the digits, optional blanks.
PgInt4(p, ver) ==
  LET t == PgSkipRight(PgSkipLeft(p))
      neg == t # <<>> /\ Head(t) = "-"
      signed == t # <<>> /\ Head(t) \in {"-", "+"}
      r == PgRadix(IF signed THEN Tail(t) ELSE t, ver)
  IN IF ~PgDigitsOk(r.rest, r.radix, r.prefixed, ver) THEN PgErr
     ELSE LET acc == PgAccum(SelectSeq(r.rest, LAMBDA c : c # "_"), 0, r.radix) IN
          IF acc = 1 THEN PgErr
          ELSE IF neg THEN [ok |-> TRUE, v |-> acc]
          ELSE IF acc = Int4Min THEN PgErr
          ELSE [ok |-> TRUE, v |-> -acc]

\* -------------------------------------------------------------------- rows
\* A row of the messages table.
Row(id, name, email, message, t) ==
  [id |-> id, name |-> name, email |-> email, message |-> message,
   created_at |-> t, updated_at |-> t]

SetMax(S) == IF S = {} THEN 0 ELSE CHOOSE m \in S : \A x \in S : x <= m
Ids(rows) == {r.id : r \in rows}

\* An id computed from the rows present (MAX(id) + 1) instead of a sequence.
NextValFromMax(last_value, rows) == SetMax(Ids(rows)) + 1

\* nextval of the sequence behind `id SERIAL PRIMARY KEY`
NextVal(last_value, rows) == last_value + 1

\* The results ORDER BY created_at DESC allows: every arrangement of the rows
\* with created_at never increasing (rows of equal created_at in any order).
Orderings(rows) ==
  LET n == Cardinality(rows) IN
  {o \in [1..n -> rows] :
     /\ \A i, j \in 1..n : i # j => o[i] # o[j]
     /\ \A i, j \in 1..n : i < j => o[i].created_at >= o[j].created_at}

\* SELECT ... FROM messages ORDER BY created_at DESC
SelectAll(rows) == Orderings(rows)

\* SELECT ... FROM messages WHERE id = $1
SelectById(rows, p, ver) ==
  LET k == PgInt4(p, ver) IN
  IF ~k.ok THEN [err |-> "input", rows |-> <<>>]
  ELSE IF \E r \in rows : r.id = k.v
       THEN [err |-> "none", rows |-> <<CHOOSE r \in rows : r.id = k.v>>]
       ELSE [err |-> "none", rows |-> <<>>]

\* A DELETE that reports the row it matched and leaves it in the table.
DeleteByIdKeepingRow(rows, p, ver) ==
  LET k == PgInt4(p, ver) IN
  IF ~k.ok THEN [err |-> "input", rows |-> rows, rowCount |-> 0]
  ELSE [err |-> "none", rows |-> rows,
        rowCount |-> Cardinality({r \in rows : r.id = k.v})]

\* DELETE FROM messages WHERE id = $1
DeleteById(rows, p, ver) ==
  LET k == PgInt4(p, ver) IN
  IF ~k.ok THEN [err |-> "input", rows |-> rows, rowCount |-> 0]
  ELSE [err |-> "none", rows |-> {r \in rows : r.id # k.v},
        rowCount |-> Cardinality({r \in rows : r.id = k.v})]

\* ---------------------------------------------------------------- requests
\* The JSON body of a POST as sent; present = FALSE when the request has none.
Body(name, email, message) ==
  [present |-> TRUE, name |-> name, email |-> email, message |-> message]
AbsentBody == [present |-> FALSE, name |-> Undef, email |-> Undef, message |-> Undef]

\* req.body after express.json(): the object sent; for a request without a body
\* either undefined (present = FALSE) or the empty object, by the body parser's
\* version.
ExpressJson(raw) ==
  IF raw.present THEN {raw} ELSE {AbsentBody, Body(Undef, Undef, Undef)}

\* The handler of POST /api/messages up to its await: the response it writes at
\* once (status # 0), or the parameters of the INSERT it issues (status = 0).
NoArgs == [name |-> <<>>, email |-> <<>>, message |-> <<>>]
PostValidate(b) ==
  IF ~b.present THEN [status |-> 500, args |-> NoArgs]
  ELSE IF Falsy(b.name) \/ Falsy(b.email) \/ Falsy(b.message)
       THEN [status |-> 400, args |-> NoArgs]
  ELSE IF LengthOver(b.name, NameMax) THEN [status |-> 400, args |-> NoArgs]
  ELSE IF LengthOver(b.email, EmailMax) THEN [status |-> 400, args |-> NoArgs]
  ELSE IF TrimThrows(b.name) \/ TrimThrows(b.email) \/ TrimThrows(b.message)
       THEN [status |-> 500, args |-> NoArgs]
  ELSE [status |-> 0,
        args |-> [name |-> Trim(b.name.s), email |-> Trim(b.email.s),
                  message |-> Trim(b.message.s)]]

\* A JSON response body by its fields success, error, message and details:
\* "absent", the literals "true" and "false", "text" for a string written in the
\* handler and "errtext" for error.message of the exception caught.
JsonBody(s, e, m, d) == [success |-> s, error |-> e, message |-> m, details |-> d]
NoBody == JsonBody("absent", "absent", "absent", "absent")

\* The values NODE_ENV is set to ("production" stands for every value that is
\* not 'development', unset included).
Modes == {"development", "production"}

\* The body the handler of op writes with the given status when NODE_ENV is m.
BodyOf(op, status, m) ==
  IF status \in {200, 201}
  THEN JsonBody(IF op \in {"health", "root"} THEN "absent" ELSE "true", "absent",
                IF op \in {"health", "root", "post", "delete"} THEN "text" ELSE "absent",
                "absent")
  ELSE IF op = "tables" THEN JsonBody("false", "errtext", "absent", "absent")
  ELSE IF op = "testdb" THEN JsonBody("false", "text", "errtext", "absent")
  ELSE IF op = "list"
       THEN JsonBody("false", "text", "text",
                     IF m = "development" THEN "errtext" ELSE "absent")
  ELSE JsonBody("false", "text", "text", "absent")

\* The errors express.json({ limit: "10mb" }) passes to next(): for a body that
\* is not JSON, and for one over the limit.
ParseError == [type |-> "entity.parse.failed", status |-> 400]
TooLarge == [type |-> "entity.too.large", status |-> 413]
BodyErrors == {ParseError, TooLarge}

\* An async handler whose body is not in a try block: the exception rejects
\* the promise of the handler, nothing handles the rejection and the process
\* ends with code 1.
TryCatchMissing(proc) == [phase |-> "exited", exitCode |-> 1]

\* try { ... } catch (error) { console.error(...); res.status(500).json(...) }
\* around the whole body of every route handler: an exception thrown in the
\* body, a rejected pool.query included, ends in the catch block, which
\* answers and returns. proc is the process (phase, exitCode) when the
\* exception is thrown, the result is the process after the catch block.
TryCatch(proc) == proc

\* app.use((error, req, res, next) => ...)
GlobalErrorHandler(e) ==
  [status |-> 500, resp |-> JsonBody("false", "text", "text", "absent")]

\* The status each handler writes once its query has settled.
ListStatus(res) == IF res.err # "none" THEN 500 ELSE 200

GetStatus(res) ==
  IF res.err # "none" THEN 500 ELSE IF Len(res.rows) = 0 THEN 404 ELSE 200

\* A catch block that reports the rejected query as a validation error.
PostStatusAsValidation(res) == IF res.err # "none" THEN 400 ELSE 201

PostStatus(res) == IF res.err # "none" THEN 500 ELSE 201

\* /api/test-db and /api/check-tables
DiagStatus(res) == IF res.err # "none" THEN 500 ELSE 200

\* A handler that does not look at rowCount.
DeleteStatusIgnoringCount(res) == IF res.err # "none" THEN 500 ELSE 200

DeleteStatus(res) ==
  IF res.err # "none" THEN 500 ELSE IF res.rowCount = 0 THEN 404 ELSE 200

\* A catch block that logs the error and returns.
InitFailureSwallowed == [phase |-> "listen", exitCode |-> -1]

\* What process.exit(1) in the catch of initDb leaves behind.
InitFailure == [phase |-> "exited", exitCode |-> 1]

\* ------------------------------------------------------------------ inputs
ValidBody == Body(Str(<<"A", "d", "a">>), Str(<<"a", "@", "b">>), Str(<<"h", "i">>))
PaddedBody ==
  Body(Str(<<"\r", "A", "d", "a", "U+00A0">>), Str(<<" ", "a", "@", "b", "\n">>),
       Str(<<"\t", "h", "i", "\f">>))

NameVals ==
  {Undef, Num(5), Str(<<>>), Str(<<" ">>), Str(<<"\r", "U+00A0">>),
   Str(Rep("n", NameMax)),
   Str(Rep("n", NameMax + 1))}
EmailVals == {Null, Str(Rep("e", EmailMax + 1))}
MessageVals == {Num(0)}

\* The bodies of the POST requests: a valid one, the same with white space
\* around each field, the valid one with one field replaced, and no body.
Bodies ==
  {ValidBody, PaddedBody, AbsentBody}
    \cup {[ValidBody EXCEPT !.name = v] : v \in NameVals}
    \cup {[ValidBody EXCEPT !.email = v] : v \in EmailVals}
    \cup {[ValidBody EXCEPT !.message = v] : v \in MessageVals}

\* The values of the :id path parameter.
Params ==
  {<<"1">>, <<"2">>, <<"0", "1">>, <<" ", "2">>, <<"a", "b", "c">>, <<"1", ".", "0">>,
   <<"-", "1">>, Rep("9", 6), Rep("9", 10), <<"1", "\r">>, <<"0", "x", "1">>}

\* The inputs of the runs with requests in flight together.
FewBodies == {ValidBody, [ValidBody EXCEPT !.name = Undef]}
FewParams == {<<"1">>, <<"2">>}

\* ------------------------------------------------------------------- state
VARIABLES
  phase,      \* position of startServer: the four queries of initDb, listen, ...
  exitCode,   \* the argument of process.exit, -1 while the process runs
  initLog,    \* outcome of each query initDb has issued, in order
  tbl,        \* the rows of the messages table
  seq,        \* last value handed out by the id sequence
  inflight,   \* the requests suspended in `await pool.query(...)`
  last,       \* the last response written
  nreq,       \* requests received so far
  issued,     \* rows inserted, in the order the database inserted them
  postDone,   \* ids of the POSTs answered 201, in the order they were answered
  delDone,    \* ids of the DELETEs answered 200, in the order they were answered
  overlap,    \* whether two POSTs have ever been in flight together
  sig,        \* termination signals (SIGINT, SIGTERM) delivered so far
  sigAt,      \* the value of nreq when the first signal was delivered
  sigInit,    \* the queries of initDb that had settled when it was delivered
  mode,       \* process.env.NODE_ENV
  others,     \* pool clients checked out by requests that are not in inflight
  pg,         \* the int4 input grammar of the database server
  page,       \* the state of MessagesPage in a browser
  calls,      \* the fetch() calls of the page that have not returned
  gone,       \* ids the page has removed from its list after a DELETE succeeded
  stmts       \* what the writing statements have done: the ids removed by a
              \* DELETE, and the ids inserted or removed by a statement whose
              \* result did not reach the handler

\* The state of the signal handlers and the state of the page.
shutVars == <<sig, sigAt, sigInit>>
pageVars == <<page, calls, gone>>

\* What the handlers of the message endpoints never assign.
ext == <<shutVars, mode, others, pg, pageVars>>

vars ==
  <<phase, exitCode, initLog, tbl, seq, inflight, last, nreq, issued, postDone,
    delDone, overlap, ext, stmts>>

InitSteps == <<"connect", "table", "index", "alter">>

NoRes == [err |-> "none", rows |-> <<>>, rowCount |-> 0, changed |-> FALSE]

NoResponse ==
  [op |-> "none", body |-> AbsentBody, param |-> <<>>, status |-> 0, data |-> <<>>,
   count |-> -1, nq |-> 0, err |-> "none", changed |-> FALSE, postSeen |-> {},
   delSeen |-> {}, quiet |-> FALSE, resp |-> NoBody]

SeqSet(s) == {s[i] : i \in 1..Len(s)}
Writing(r) == r.op \in {"post", "delete"}

\* useState of MessagesPage before its first effect has run.
NoPage == [mounted |-> FALSE, messages |-> <<>>, loading |-> TRUE, refreshing |-> FALSE,
           deletingIds |-> <<>>]

\* The process starts in mode m against a database whose messages table holds
\* the rows of store, inserted in that order by earlier runs of the server
\* (none when the table does not exist yet); the server reads int4 as ver.
Start(store, m, ver) ==
  /\ phase = "connect"
  /\ exitCode = -1
  /\ initLog = <<>>
  /\ tbl = SeqSet(store)
  /\ seq = Len(store)
  /\ inflight = {}
  /\ last = NoResponse
  /\ nreq = 0
  /\ issued = store
  /\ postDone = <<>>
  /\ delDone = <<>>
  /\ overlap = FALSE
  /\ sig = 0
  /\ sigAt = 0
  /\ sigInit = 0
  /\ mode = m
  /\ others = 0
  /\ pg = ver
  /\ page = NoPage
  /\ calls = {}
  /\ gone = {}
  /\ stmts = [removed |-> {}, lostInsert |-> {}, lostDelete |-> {}]

\* (The ids of the requests of Spec are read alike by every version.)
Init == Start(<<>>, "production", "16")

\* A table left by an earlier run of the server: one message, created then.
OldStore ==
  <<Row(1, <<"O", "l", "d">>, <<"o", "@", "p">>, <<"y", "o">>, 1)>>

\* The process is started on a new database or on one an earlier run has filled.
InitSequential ==
  \E store \in {<<>>, OldStore}, ver \in PgVersions : Start(store, "production", ver)

\* ---------------------------------------------------------------- start-up
\* Statements that drop the table and create it anew.
InitStepRowsRecreate(step, rows) == IF step = "table" THEN {} ELSE rows

\* The rows of the table after a statement of initDb has run on a table of the
\* present schema: SELECT 1, CREATE TABLE IF NOT EXISTS, CREATE INDEX IF NOT
\* EXISTS and ALTER TABLE ... ADD COLUMN IF NOT EXISTS write no row.
InitStepRows(step, rows) == rows

\* One query of initDb succeeds: the next one is issued, or initDb returns. (A
\* query issued after pool.end() was called does not succeed.)
InitDbQuery ==
  /\ sig > 0 => Len(initLog) = sigInit
  /\ \E i \in 1..Len(InitSteps) :
       /\ phase = InitSteps[i]
       /\ phase' = IF i < Len(InitSteps) THEN InitSteps[i + 1] ELSE "listen"
       /\ tbl' = InitStepRows(InitSteps[i], tbl)
  /\ initLog' = Append(initLog, "ok")
  /\ UNCHANGED <<ext, exitCode, seq, inflight, last, nreq, issued, postDone,
                 delDone, overlap, stmts>>

\* One query of initDb rejects, for a failure of the database or because the
\* pool is ending: the pool has its client back and the catch block of initDb
\* is to run.
InitDbFail ==
  /\ \E i \in 1..Len(InitSteps) : phase = InitSteps[i]
  /\ initLog' = Append(initLog, "failed")
  /\ phase' = "catch"
  /\ UNCHANGED <<ext, exitCode, tbl, seq, inflight, last, nreq, issued, postDone,
                 delDone, overlap, stmts>>

\* The catch block of initDb runs: process.exit(1). (A signal listener that
\* awaits pool.end() may resume before it, see PoolEnded.)
InitDbCatch ==
  /\ phase = "catch"
  /\ phase' = InitFailure.phase
  /\ exitCode' = InitFailure.exitCode
  /\ UNCHANGED <<ext, initLog, tbl, seq, inflight, last, nreq, issued, postDone,
                 delDone, overlap, stmts>>

\* app.listen(PORT), after `await initDb()` has returned.
Listen ==
  /\ phase = "listen"
  /\ phase' = "listening"
  /\ UNCHANGED <<ext, exitCode, initLog, tbl, seq, inflight, last, nreq, issued,
                 postDone, delDone, overlap, stmts>>

\* How app.listen(PORT, callback) can fail to bind. "throw": listen throws (a port
\* out of range) and the catch of startServer calls process.exit(1). "error":
\* the port is in use and the server emits 'error'; app.listen has registered
\* the callback as a listener of that event too, the callback ignores its
\* argument and prints the banner, and the process goes on without a socket
\* that listens. "uncaught": the same event under a version of the framework
\* that registers the callback for 'listening' alone, where the event has no
\* listener and ends the process with code 1.
ListenFailures == {"throw", "error", "uncaught"}

ListenFails ==
  /\ phase = "listen"
  /\ \E f \in ListenFailures :
       IF f = "error" THEN phase' = "unbound" /\ exitCode' = exitCode
       ELSE phase' = "exited" /\ exitCode' = 1
  /\ UNCHANGED <<ext, initLog, tbl, seq, inflight, last, nreq, issued, postDone,
                 delDone, overlap, stmts>>

\* The process that is up without a listening socket has nothing left to wait
\* for once the idle clients of the pool have been closed (idleTimeoutMillis):
\* it ends of itself, with code 0 and no signal received.
EventLoopEmpty ==
  /\ phase = "unbound"
  /\ phase' = "exited"
  /\ exitCode' = 0
  /\ UNCHANGED <<ext, initLog, tbl, seq, inflight, last, nreq, issued, postDone,
                 delDone, overlap, stmts>>

\* ----------------------------------------------------------------- arrival
\* The server reads requests once it listens. (n bounds the requests of a run
\* and k those suspended together.)
Accepting(n) == phase = "listening" /\ nreq < n

\* The process as a handler finds it.
Process == [phase |-> phase, exitCode |-> exitCode]

\* The process after a handler has run to its end: thrown tells whether its
\* body threw.
AfterHandler(thrown) == IF thrown THEN TryCatch(Process) ELSE Process

\* pool.query of r was called after pool.end(): the pool rejects it at once.
Late(r) == r.late

\* The clients of the pool that are checked out: one for each query in
\* progress.
Busy == others + Cardinality({r \in inflight : r.pc = "query" /\ ~Late(r)})

\* The requests queued in the pool for a client.
Waiting == {r \in inflight : r.pc = "wait"}

\* A pool that makes a new client for every query.
PoolFreeUnbounded(busy) == TRUE

\* The pool has an idle client or may make a new one (max: 20).
PoolFree(busy) == busy < PoolMax

\* Where a request stands once it has called pool.query: its query issued (or
\* rejected at once by a pool that is ending), or queued for a client.
IssuePc == IF sig > 0 \/ (PoolFree(Busy) /\ Waiting = {}) THEN "query" ELSE "wait"

\* A request is suspended with its query issued, or queued in the pool when
\* every client is checked out. rid numbers the requests;
\* postSeen, delSeen and quiet record what had been answered when it arrived.
Suspend(k, op, body, param, args) ==
  /\ Cardinality(inflight) < k
  /\ inflight' =
       {IF Writing([op |-> op]) THEN [r EXCEPT !.quiet = FALSE] ELSE r : r \in inflight}
         \cup {[rid |-> nreq + 1, op |-> op, step |-> 1, pc |-> IssuePc,
                late |-> sig > 0, body |-> body,
                param |-> param, args |-> args, res |-> NoRes,
                postSeen |-> SeqSet(postDone), delSeen |-> SeqSet(delDone),
                quiet |-> op = "list" /\ \A r \in inflight : ~Writing(r)]}
  /\ overlap' = (overlap \/ (op = "post" /\ \E r \in inflight : r.op = "post"))
  /\ nreq' = nreq + 1

\* GET /api/messages
GetMessages(n, k) ==
  /\ Accepting(n)
  /\ Suspend(k, "list", AbsentBody, <<>>, NoArgs)
  /\ UNCHANGED <<ext, phase, exitCode, initLog, tbl, seq, last, issued, postDone, delDone,
                 stmts>>

\* GET /api/messages/:id
GetMessage(n, k, p) ==
  /\ Accepting(n)
  /\ Suspend(k, "get", AbsentBody, p, NoArgs)
  /\ UNCHANGED <<ext, phase, exitCode, initLog, tbl, seq, last, issued, postDone, delDone,
                 stmts>>

\* DELETE /api/messages/:id
DeleteMessage(n, k, p) ==
  /\ Accepting(n)
  /\ Suspend(k, "delete", AbsentBody, p, NoArgs)
  /\ UNCHANGED <<ext, phase, exitCode, initLog, tbl, seq, last, issued, postDone, delDone,
                 stmts>>

\* POST /api/messages, answered before any query: a validation error, or the
\* TypeError of the destructuring or of trim() caught by the handler.
PostRejected(n, raw) ==
  /\ Accepting(n)
  /\ \E b \in ExpressJson(raw) :
       /\ PostValidate(b).status # 0
       /\ last' = [NoResponse EXCEPT !.op = "post", !.body = raw,
                                     !.status = PostValidate(b).status,
                                     !.resp = BodyOf("post", PostValidate(b).status, mode)]
       /\ phase' = AfterHandler(PostValidate(b).status = 500).phase
       /\ exitCode' = AfterHandler(PostValidate(b).status = 500).exitCode
  /\ nreq' = nreq + 1
  /\ UNCHANGED <<ext, initLog, tbl, seq, inflight, issued, postDone,
                 delDone, overlap, stmts>>

\* POST /api/messages, validated: the INSERT is issued.
PostMessage(n, k, raw) ==
  /\ Accepting(n)
  /\ \E b \in ExpressJson(raw) :
       /\ PostValidate(b).status = 0
       /\ Suspend(k, "post", raw, <<>>, PostValidate(b).args)
  /\ UNCHANGED <<ext, phase, exitCode, initLog, tbl, seq, last, issued, postDone, delDone,
                 stmts>>

\* A request, to a route or to no route, with a body express.json() rejects:
\* the middleware passes its error on before any route is tried and the global
\* error handler answers.
BodyRejected(n, op, e) ==
  /\ Accepting(n)
  /\ last' = [NoResponse EXCEPT !.op = op, !.err = "parse",
                                !.status = GlobalErrorHandler(e).status,
                                !.resp = GlobalErrorHandler(e).resp]
  /\ nreq' = nreq + 1
  /\ UNCHANGED <<ext, phase, exitCode, initLog, tbl, seq, inflight, issued,
                 postDone, delDone, overlap, stmts>>

\* cors(), mounted before everything else, answers an OPTIONS request with 204
\* and no body; no route and no other handler sees it.
CorsAnswers ==
  /\ last' = [NoResponse EXCEPT !.op = "options", !.status = 204, !.resp = NoBody]
  /\ nreq' = nreq + 1

\* An OPTIONS request, to any path.
Preflight(n) ==
  /\ Accepting(n)
  /\ CorsAnswers
  /\ UNCHANGED <<ext, phase, exitCode, initLog, tbl, seq, inflight, issued,
                 postDone, delDone, overlap, stmts>>

\* GET /api/health and GET /: answered without a query.
Static(n, op) ==
  /\ Accepting(n)
  /\ last' = [NoResponse EXCEPT !.op = op, !.status = 200, !.resp = BodyOf(op, 200, mode)]
  /\ nreq' = nreq + 1
  /\ UNCHANGED <<ext, phase, exitCode, initLog, tbl, seq, inflight, issued,
                 postDone, delDone, overlap, stmts>>

\* A request of a method other than OPTIONS, without a body or with one that
\* express.json() accepts, that no route matches: the 404 handler answers.
Unmatched(n) ==
  /\ Accepting(n)
  /\ last' = [NoResponse EXCEPT !.op = "unmatched", !.status = 404,
                                !.resp = BodyOf("unmatched", 404, mode)]
  /\ nreq' = nreq + 1
  /\ UNCHANGED <<ext, phase, exitCode, initLog, tbl, seq, inflight, issued,
                 postDone, delDone, overlap, stmts>>

\* GET /api/test-db (op = "testdb") and GET /api/check-tables (op = "tables"):
\* the first of the handler's two queries is issued.
Diag(n, k, op) ==
  /\ Accepting(n)
  /\ Suspend(k, op, AbsentBody, <<>>, NoArgs)
  /\ UNCHANGED <<ext, phase, exitCode, initLog, tbl, seq, last, issued, postDone,
                 delDone, stmts>>

\* ---------------------------------------------------------------- database
Pending(r, op) == r \in inflight /\ r.pc = "query" /\ r.op = op /\ ~Late(r)

Settle(r, res) ==
  inflight' = (inflight \ {r}) \cup {[r EXCEPT !.pc = "result", !.res = res]}

\* The pool rejects the query of r for an infrastructure reason before the
\* statement has taken effect: the table is as it was. A failed INSERT may have
\* drawn from the sequence before it was given up.
QueryFails(r) ==
  /\ r \in inflight /\ r.pc = "query"
  /\ Settle(r, [NoRes EXCEPT !.err = "infra"])
  /\ seq' \in (IF r.op = "post" THEN {seq, NextVal(seq, tbl)} ELSE {seq})
  /\ UNCHANGED <<ext, phase, exitCode, initLog, tbl, last, nreq, issued, postDone,
                 delDone, overlap, stmts>>

\* SELECT ... ORDER BY created_at DESC runs.
ExecSelectAll(r) ==
  /\ Pending(r, "list")
  /\ \E o \in SelectAll(tbl) : Settle(r, [NoRes EXCEPT !.rows = o, !.rowCount = Len(o)])
  /\ UNCHANGED <<ext, phase, exitCode, initLog, tbl, seq, last, nreq, issued, postDone,
                 delDone, overlap, stmts>>

\* SELECT ... WHERE id = $1 runs.
ExecSelectById(r) ==
  /\ Pending(r, "get")
  /\ LET q == SelectById(tbl, r.param, pg) IN
     Settle(r, [NoRes EXCEPT !.err = q.err, !.rows = q.rows, !.rowCount = Len(q.rows)])
  /\ UNCHANGED <<ext, phase, exitCode, initLog, tbl, seq, last, nreq, issued, postDone,
                 delDone, overlap, stmts>>

\* The INSERT of r, run in a transaction that began at time t, with err as the
\* outcome pool.query reports: the row gets the next id of the sequence and t
\* for both timestamps. (The id is drawn when the row is built, the time is
\* that of the start of the transaction, and the server's clock may be set
\* back: neither orders the other.)
Insert(r, t, err) ==
  LET row == Row(NextVal(seq, tbl), r.args.name, r.args.email, r.args.message, t)
  IN /\ tbl' = tbl \cup {row}
     /\ seq' = row.id
     /\ issued' = Append(issued, row)
     /\ stmts' = IF err = "none" THEN stmts
                 ELSE [stmts EXCEPT !.lostInsert = @ \cup {row.id}]
     /\ Settle(r, [NoRes EXCEPT !.err = err,
                                !.rows = IF err = "none" THEN <<row>> ELSE <<>>,
                                !.rowCount = IF err = "none" THEN 1 ELSE 0,
                                !.changed = (tbl \cup {row}) # tbl])

\* INSERT ... RETURNING runs and its result reaches the handler.
ExecInsert(r) ==
  /\ Pending(r, "post")
  /\ \E t \in 1..MaxClock : Insert(r, t, "none")
  /\ UNCHANGED <<ext, phase, exitCode, initLog, last, nreq, postDone, delDone, overlap>>

\* INSERT ... RETURNING runs and commits, and the connection is lost before the
\* result has been read: pool.query rejects.
InsertLost(r) ==
  /\ Pending(r, "post")
  /\ \E t \in 1..MaxClock : Insert(r, t, "infra")
  /\ UNCHANGED <<ext, phase, exitCode, initLog, last, nreq, postDone, delDone, overlap>>

\* The DELETE of r, with lost telling that its result does not reach the pool.
Delete(r, lost) ==
  LET q == DeleteById(tbl, r.param, pg) IN
    /\ lost => q.err = "none"
    /\ tbl' = q.rows
    /\ stmts' = IF q.rows = tbl THEN stmts
                ELSE [stmts EXCEPT
                        !.removed = @ \cup {PgInt4(r.param, pg).v},
                        !.lostDelete = IF lost THEN @ \cup {PgInt4(r.param, pg).v} ELSE @]
    /\ Settle(r, [NoRes EXCEPT !.err = IF lost THEN "infra" ELSE q.err,
                               !.rowCount = IF lost THEN 0 ELSE q.rowCount,
                               !.changed = q.rows # tbl])

\* DELETE ... WHERE id = $1 runs and its result reaches the handler.
ExecDelete(r) ==
  /\ Pending(r, "delete")
  /\ Delete(r, FALSE)
  /\ UNCHANGED <<ext, phase, exitCode, initLog, seq, last, nreq, issued, postDone,
                 delDone, overlap>>

\* DELETE ... WHERE id = $1 runs and commits, and the connection is lost before
\* the result has been read: pool.query rejects.
DeleteLost(r) ==
  /\ Pending(r, "delete")
  /\ Delete(r, TRUE)
  /\ UNCHANGED <<ext, phase, exitCode, initLog, seq, last, nreq, issued, postDone,
                 delDone, overlap>>

\* A query of /api/test-db or /api/check-tables runs and its client is
\* returned: after the first the handler is still to resume, after the second
\* it has its results. The queries read only.
ExecDiag(r) ==
  /\ r \in inflight /\ r.pc = "query" /\ r.op \in {"testdb", "tables"} /\ ~Late(r)
  /\ IF r.step = 1
     THEN inflight' = (inflight \ {r}) \cup {[r EXCEPT !.pc = "between"]}
     ELSE Settle(r, [NoRes EXCEPT !.rowCount = 1])
  /\ UNCHANGED <<ext, phase, exitCode, initLog, tbl, seq, last, nreq, issued,
                 postDone, delDone, overlap, stmts>>

\* The handler of /api/test-db or /api/check-tables resumes after its first
\* await and calls pool.query for its second query.
DiagSecond(r) ==
  /\ phase = "listening"
  /\ r \in inflight /\ r.pc = "between"
  /\ inflight' = (inflight \ {r})
                   \cup {[r EXCEPT !.step = 2, !.pc = IssuePc, !.late = sig > 0]}
  /\ UNCHANGED <<ext, phase, exitCode, initLog, tbl, seq, last, nreq, issued,
                 postDone, delDone, overlap, stmts>>

\* ---------------------------------------------------------------- responses
\* The response to request r is on its way to the fetch() of the page that sent
\* the request, if the page sent it.
Deliver(r, status, rows) ==
  {IF c.pc = "handled" /\ c.rid = r.rid
   THEN [c EXCEPT !.pc = "done", !.status = status, !.rows = rows] ELSE c : c \in calls}

\* The response of r, written when its handler resumes after the await.
Response(r, status, data, count) ==
  [op |-> r.op, body |-> r.body, param |-> r.param, status |-> status, data |-> data,
   count |-> count, nq |-> r.step, err |-> r.res.err, changed |-> r.res.changed,
   postSeen |-> r.postSeen, delSeen |-> r.delSeen, quiet |-> r.quiet,
   resp |-> BodyOf(r.op, status, mode)]

\* The handler of r resumes after its await, with the result of the query or
\* with pool.query rejected.
Resume(r, op) ==
  /\ phase = "listening"
  /\ r \in inflight /\ r.pc = "result" /\ r.op = op
  /\ inflight' = inflight \ {r}
  /\ phase' = AfterHandler(r.res.err # "none").phase
  /\ exitCode' = AfterHandler(r.res.err # "none").exitCode

RespondList(r) ==
  /\ Resume(r, "list")
  /\ last' = IF ListStatus(r.res) = 200
             THEN Response(r, 200, r.res.rows, Len(r.res.rows))
             ELSE Response(r, ListStatus(r.res), <<>>, -1)
  /\ calls' = Deliver(r, ListStatus(r.res), r.res.rows)
  /\ UNCHANGED <<initLog, tbl, seq, nreq, issued, postDone, delDone,
                 overlap, shutVars, mode, others, pg, page, gone, stmts>>

RespondGet(r) ==
  /\ Resume(r, "get")
  /\ last' = IF GetStatus(r.res) = 200
             THEN Response(r, 200, <<r.res.rows[1]>>, -1)
             ELSE Response(r, GetStatus(r.res), <<>>, -1)
  /\ UNCHANGED <<ext, initLog, tbl, seq, nreq, issued, postDone,
                 delDone, overlap, stmts>>

RespondPost(r) ==
  /\ Resume(r, "post")
  /\ last' = IF PostStatus(r.res) = 201
             THEN Response(r, 201, <<r.res.rows[1]>>, -1)
             ELSE Response(r, PostStatus(r.res), <<>>, -1)
  /\ postDone' = IF PostStatus(r.res) = 201 THEN Append(postDone, r.res.rows[1].id)
                 ELSE postDone
  /\ UNCHANGED <<ext, initLog, tbl, seq, nreq, issued, delDone, overlap,
                 stmts>>

RespondDelete(r) ==
  /\ Resume(r, "delete")
  /\ last' = Response(r, DeleteStatus(r.res), <<>>, -1)
  /\ delDone' = IF DeleteStatus(r.res) = 200 THEN Append(delDone, PgInt4(r.param, pg).v)
                ELSE delDone
  /\ calls' = Deliver(r, DeleteStatus(r.res), <<>>)
  /\ UNCHANGED <<initLog, tbl, seq, nreq, issued, postDone, overlap,
                 shutVars, mode, others, pg, page, gone, stmts>>

\* --------------------------------------------------------------------- pool
\* A client has been returned: the pool hands it to the request that has been
\* queued longest, and the query of that request is issued. (A pool that is
\* ending serves its queue no more.)
Acquire(r) ==
  /\ r \in Waiting /\ \A w \in Waiting : r.rid <= w.rid
  /\ sig = 0
  /\ PoolFree(Busy)
  /\ inflight' = (inflight \ {r}) \cup {[r EXCEPT !.pc = "query"]}
  /\ UNCHANGED <<ext, phase, exitCode, initLog, tbl, seq, last, nreq, issued,
                 postDone, delDone, overlap, stmts>>

\* connectionTimeoutMillis elapses before a client is free: pool.query rejects.
ConnectTimeout(r) ==
  /\ r \in Waiting
  /\ Settle(r, [NoRes EXCEPT !.err = "timeout"])
  /\ UNCHANGED <<ext, phase, exitCode, initLog, tbl, seq, last, nreq, issued,
                 postDone, delDone, overlap, stmts>>

\* A request that is not followed one by one (a health check, a reader) has its
\* query issued on a free client.
OtherAcquire ==
  /\ phase = "listening" /\ sig = 0
  /\ PoolFree(Busy) /\ Waiting = {} /\ others < PoolMax
  /\ others' = others + 1
  /\ UNCHANGED <<phase, exitCode, initLog, tbl, seq, inflight, last, nreq, issued,
                 postDone, delDone, overlap, shutVars, mode, pg, pageVars, stmts>>

\* The query of such a request completes and its client is returned.
OtherRelease ==
  /\ others > 0
  /\ others' = others - 1
  /\ UNCHANGED <<phase, exitCode, initLog, tbl, seq, inflight, last, nreq, issued,
                 postDone, delDone, overlap, shutVars, mode, pg, pageVars, stmts>>

RespondDiag(r) ==
  /\ \E op \in {"testdb", "tables"} : Resume(r, op)
  /\ last' = Response(r, DiagStatus(r.res), <<>>, -1)
  /\ UNCHANGED <<ext, initLog, tbl, seq, nreq, issued, postDone,
                 delDone, overlap, stmts>>

\* ----------------------------------------------------------------- shutdown
\* What the process does when the promise of an async signal listener rejects
\* and nothing handles it: it ends with exit code 1, or it only warns and goes
\* on, by the version of the runtime.
UnhandledRejection == {"exit", "warn"}

\* A client of the pool is checked out: a query of a request or of initDb that
\* the pool has accepted is in progress.
ClientsOut ==
  \/ others > 0
  \/ \E r \in inflight : r.pc = "query" /\ ~Late(r)
  \/ /\ \E i \in 1..Len(InitSteps) : phase = InitSteps[i]
     /\ sig > 0 => Len(initLog) = sigInit

\* SIGINT or SIGTERM is delivered, at any time from the load of the module on
\* (the listeners are registered before startServer is called). The listener
\* calls pool.end() and awaits it; with no client checked out the pool ends at
\* once and the listener goes on to process.exit(0) before any other callback
\* runs. The server is not closed. A call of pool.end() on a pool that is
\* already ending rejects. (The catch of initDb runs in the turn in which its
\* query rejected: no signal is delivered in between.)
Signal ==
  /\ phase \notin {"exited", "catch"} /\ sig < MaxSignals
  /\ sig' = sig + 1
  /\ sigAt' = IF sig = 0 THEN nreq ELSE sigAt
  /\ sigInit' = IF sig = 0 THEN Len(initLog) ELSE sigInit
  /\ \E o \in IF sig > 0 THEN UnhandledRejection
               ELSE IF ClientsOut THEN {"await"} ELSE {"ended"} :
       IF o = "exit" THEN phase' = "exited" /\ exitCode' = 1
       ELSE IF o = "ended" THEN phase' = "exited" /\ exitCode' = 0
       ELSE UNCHANGED <<phase, exitCode>>
  /\ UNCHANGED <<initLog, tbl, seq, inflight, last, nreq, issued, postDone,
                 delDone, overlap, mode, others, pg, pageVars, stmts>>

\* The last client is back in the pool: pool.end() resolves and the listener
\* goes on to process.exit(0).
PoolEnded ==
  /\ phase # "exited" /\ sig > 0
  /\ ~ClientsOut
  /\ phase' = "exited"
  /\ exitCode' = 0
  /\ UNCHANGED <<initLog, tbl, seq, inflight, last, nreq, issued, postDone,
                 delDone, overlap, ext, stmts>>

\* --------------------------------------------------------------------- page
\* `${message.id}` in the URL of the DELETE: the decimal digits of the id.
RECURSIVE ToDecimal(_)
ToDecimal(n) ==
  LET d == CHOOSE c \in Digits : DigitVal(c) = n % 10 IN
  IF n < 10 THEN <<d>> ELSE ToDecimal(n \div 10) \o <<d>>

\* response.ok
Ok(status) == status \in 200..299

\* prev.filter((m) => m.id !== id)
RECURSIVE FilterOut(_, _)
FilterOut(ms, id) ==
  IF ms = <<>> THEN <<>>
  ELSE IF Head(ms).id = id THEN FilterOut(Tail(ms), id)
  ELSE <<Head(ms)>> \o FilterOut(Tail(ms), id)

\* s.filter((x) => x !== id)
RECURSIVE Without(_, _)
Without(ids, id) ==
  IF ids = <<>> THEN <<>>
  ELSE IF Head(ids) = id THEN Without(Tail(ids), id)
  ELSE <<Head(ids)>> \o Without(Tail(ids), id)

\* A fetch() of the page is sent: a GET of the list (id = 0) or the DELETE of
\* a message.
Call(kind, id) ==
  /\ nreq + Cardinality({c \in calls : c.pc \in {"sent", "cleared"}}) < MaxPageCalls
  /\ calls' = calls \cup {[kind |-> kind, id |-> id, pc |-> "sent", rid |-> 0,
                           status |-> 0, rows |-> <<>>]}

\* The page is opened: useEffect calls fetchMessages().
Mount ==
  /\ ~page.mounted
  /\ page' = [page EXCEPT !.mounted = TRUE, !.loading = TRUE]
  /\ Call("list", 0)
  /\ UNCHANGED <<phase, exitCode, initLog, tbl, seq, inflight, last, nreq, issued,
                 postDone, delDone, overlap, shutVars, mode, others, pg, gone, stmts>>

\* The Refresh button, shown once loading is over and enabled while no
\* refresh is under way: fetchMessages(true).
Refresh ==
  /\ page.mounted /\ ~page.loading /\ ~page.refreshing
  /\ page' = [page EXCEPT !.refreshing = TRUE]
  /\ Call("list", 0)
  /\ UNCHANGED <<phase, exitCode, initLog, tbl, seq, inflight, last, nreq, issued,
                 postDone, delDone, overlap, shutVars, mode, others, pg, gone, stmts>>

\* The Delete button of a displayed message, enabled while its id is not in
\* deletingIds, is clicked and the confirm dialog accepted.
ClickDelete(id) ==
  /\ page.mounted /\ ~page.loading
  /\ \E i \in 1..Len(page.messages) : page.messages[i].id = id
  /\ id \notin SeqSet(page.deletingIds)
  /\ page' = [page EXCEPT !.deletingIds = Append(@, id)]
  /\ Call("delete", id)
  /\ UNCHANGED <<phase, exitCode, initLog, tbl, seq, inflight, last, nreq, issued,
                 postDone, delDone, overlap, shutVars, mode, others, pg, gone, stmts>>

\* The page is on another origin than the API (localhost:3000 and :5000 by
\* default): before a DELETE the browser sends an OPTIONS request for its URL,
\* which cors() answers, allowing the method.
PreflightDelete(c) ==
  /\ c \in calls /\ c.kind = "delete" /\ c.pc = "sent"
  /\ Accepting(MaxPageCalls)
  /\ CorsAnswers
  /\ calls' = (calls \ {c}) \cup {[c EXCEPT !.pc = "cleared"]}
  /\ UNCHANGED <<phase, exitCode, initLog, tbl, seq, inflight, issued, postDone,
                 delDone, overlap, shutVars, mode, others, pg, page, gone, stmts>>

\* A request of the page reaches the server (a DELETE after its preflight, or
\* without one when page and API share an origin): its handler runs up to its
\* await as for any client (GET /api/messages, DELETE /api/messages/:id).
Arrive(c) ==
  /\ c \in calls /\ c.pc \in {"sent", "cleared"}
  /\ Accepting(MaxPageCalls)
  /\ IF c.kind = "list" THEN Suspend(MaxPageCalls, "list", AbsentBody, <<>>, NoArgs)
     ELSE Suspend(MaxPageCalls, "delete", AbsentBody, ToDecimal(c.id), NoArgs)
  /\ calls' = (calls \ {c}) \cup {[c EXCEPT !.pc = "handled", !.rid = nreq + 1]}
  /\ UNCHANGED <<phase, exitCode, initLog, tbl, seq, last, issued, postDone, delDone,
                 shutVars, mode, others, pg, page, gone, stmts>>

\* The server does not answer (it is not listening, or the connection fails):
\* fetch() rejects.
Unreached(c) ==
  /\ c \in calls /\ c.pc \in {"sent", "cleared"}
  /\ calls' = (calls \ {c}) \cup {[c EXCEPT !.pc = "done", !.status = 0]}
  /\ UNCHANGED <<phase, exitCode, initLog, tbl, seq, inflight, last, nreq, issued,
                 postDone, delDone, overlap, shutVars, mode, others, pg, page, gone,
                 stmts>>

\* fetchMessages resumes with the response, or in its catch when fetch()
\* rejected (status 0): setMessages(data.data) when the response is ok, and in
\* every case setLoading(false) and setRefreshing(false).
ListReturns(c) ==
  /\ c \in calls /\ c.kind = "list" /\ c.pc = "done"
  /\ calls' = calls \ {c}
  /\ page' = [page EXCEPT !.messages = IF Ok(c.status) THEN c.rows ELSE @,
                          !.loading = FALSE, !.refreshing = FALSE]
  /\ UNCHANGED <<phase, exitCode, initLog, tbl, seq, inflight, last, nreq, issued,
                 postDone, delDone, overlap, shutVars, mode, others, pg, gone, stmts>>

\* The onClick of Delete resumes with the response: the message is filtered out
\* of the list when it is ok, an alert is shown when it is not; finally the id
\* leaves deletingIds.
DeleteReturns(c) ==
  /\ c \in calls /\ c.kind = "delete" /\ c.pc = "done"
  /\ calls' = calls \ {c}
  /\ page' = [page EXCEPT !.messages = IF Ok(c.status) THEN FilterOut(@, c.id) ELSE @,
                          !.deletingIds = Without(@, c.id)]
  /\ gone' = IF Ok(c.status) THEN gone \cup {c.id} ELSE gone
  /\ UNCHANGED <<phase, exitCode, initLog, tbl, seq, inflight, last, nreq, issued,
                 postDone, delDone, overlap, shutVars, mode, others, pg, stmts>>

\* ------------------------------------------------------------ specification
\* A step of the database or of a handler resuming after its await. A query
\* that fails here fails before its statement takes effect.
Progress ==
  \/ \E r \in inflight : QueryFails(r)
  \/ \E r \in inflight : ExecSelectAll(r)
  \/ \E r \in inflight : ExecSelectById(r)
  \/ \E r \in inflight : ExecInsert(r)
  \/ \E r \in inflight : ExecDelete(r)
  \/ \E r \in inflight : RespondList(r)
  \/ \E r \in inflight : RespondGet(r)
  \/ \E r \in inflight : RespondPost(r)
  \/ \E r \in inflight : RespondDelete(r)

\* Clients that send requests while others are in flight.
Next ==
  \/ InitDbQuery
  \/ InitDbFail
  \/ InitDbCatch
  \/ Listen
  \/ ListenFails
  \/ EventLoopEmpty
  \/ GetMessages(MaxReqs, MaxInFlight)
  \/ \E p \in FewParams : GetMessage(MaxReqs, MaxInFlight, p)
  \/ \E p \in FewParams : DeleteMessage(MaxReqs, MaxInFlight, p)
  \/ \E b \in FewBodies : PostRejected(MaxReqs, b)
  \/ \E b \in FewBodies : PostMessage(MaxReqs, MaxInFlight, b)
  \/ Progress

Spec == Init /\ [][Next]_vars

\* A client that waits for each response before it sends the next request, and
\* sends every body of Bodies and every parameter of Params; the connection to
\* the database can also be lost after a statement has committed.
NextSequential ==
  \/ InitDbQuery
  \/ InitDbFail
  \/ InitDbCatch
  \/ Listen
  \/ ListenFails
  \/ EventLoopEmpty
  \/ GetMessages(MaxSeqReqs, 1)
  \/ \E p \in Params : GetMessage(MaxSeqReqs, 1, p)
  \/ \E p \in Params : DeleteMessage(MaxSeqReqs, 1, p)
  \/ \E b \in Bodies : PostRejected(MaxSeqReqs, b)
  \/ \E b \in Bodies : PostMessage(MaxSeqReqs, 1, b)
  \/ Progress
  \/ \E r \in inflight : InsertLost(r)
  \/ \E r \in inflight : DeleteLost(r)

SpecSequential == InitSequential /\ [][NextSequential]_vars

\* The same client on a new database.
InitNewStore == \E ver \in PgVersions : Start(<<>>, "production", ver)

SpecNewStore == InitNewStore /\ [][NextSequential]_vars

\* Clients that go on sending requests while termination signals are delivered.
NextShutdown ==
  \/ InitDbQuery
  \/ InitDbFail
  \/ InitDbCatch
  \/ Listen
  \/ ListenFails
  \/ EventLoopEmpty
  \/ GetMessages(MaxSigReqs, MaxInFlight)
  \/ \E p \in FewParams : GetMessage(MaxSigReqs, MaxInFlight, p)
  \/ \E p \in FewParams : DeleteMessage(MaxSigReqs, MaxInFlight, p)
  \/ \E b \in FewBodies : PostRejected(MaxSigReqs, b)
  \/ \E b \in FewBodies : PostMessage(MaxSigReqs, MaxInFlight, b)
  \/ Progress
  \/ Signal
  \/ PoolEnded

SpecShutdown == Init /\ [][NextShutdown]_vars

\* Clients that list the messages while other requests hold clients of the pool.
NextPool ==
  \/ InitDbQuery
  \/ InitDbFail
  \/ InitDbCatch
  \/ Listen
  \/ ListenFails
  \/ EventLoopEmpty
  \/ GetMessages(MaxPoolReqs, MaxPoolReqs)
  \/ \E r \in inflight : QueryFails(r)
  \/ \E r \in inflight : ExecSelectAll(r)
  \/ \E r \in inflight : RespondList(r)
  \/ \E r \in inflight : Acquire(r)
  \/ \E r \in inflight : ConnectTimeout(r)
  \/ OtherAcquire
  \/ OtherRelease

SpecPool == Init /\ [][NextPool]_vars

\* The process is started in either mode.
InitRoutes == \E m \in Modes : Start(<<>>, m, "16")

\* Clients that call every route, the diagnostic ones included, with requests
\* in flight together, and send OPTIONS requests and, to every route, bodies
\* that express.json() rejects; the connection to the database can also be
\* lost after a statement has committed.
\* The :id parameters of these runs: an id, stored or not, and text that is
\* not a number.
RouteParams == {<<"1">>, <<"a", "b", "c">>}

Routes ==
  {"health", "testdb", "tables", "root", "list", "get", "post", "delete", "unmatched"}

NextRoutes ==
  \/ InitDbQuery
  \/ InitDbFail
  \/ InitDbCatch
  \/ Listen
  \/ ListenFails
  \/ EventLoopEmpty
  \/ GetMessages(MaxRouteReqs, MaxInFlight)
  \/ \E p \in RouteParams : GetMessage(MaxRouteReqs, MaxInFlight, p)
  \/ \E p \in RouteParams : DeleteMessage(MaxRouteReqs, MaxInFlight, p)
  \/ \E b \in Bodies : PostRejected(MaxRouteReqs, b)
  \/ \E b \in FewBodies : PostMessage(MaxRouteReqs, MaxInFlight, b)
  \/ \E op \in {"health", "root"} : Static(MaxRouteReqs, op)
  \/ Unmatched(MaxRouteReqs)
  \/ \E op \in {"testdb", "tables"} : Diag(MaxRouteReqs, MaxInFlight, op)
  \/ Preflight(MaxRouteReqs)
  \/ \E op \in Routes, e \in BodyErrors : BodyRejected(MaxRouteReqs, op, e)
  \/ Progress
  \/ \E r \in inflight : InsertLost(r)
  \/ \E r \in inflight : DeleteLost(r)
  \/ \E r \in inflight : ExecDiag(r)
  \/ \E r \in inflight : DiagSecond(r)
  \/ \E r \in inflight : RespondDiag(r)

SpecRoutes == InitRoutes /\ [][NextRoutes]_vars

\* The table holds two messages when the server is started.
PageStore ==
  <<OldStore[1], Row(2, <<"N", "e", "w">>, <<"n", "@", "p">>, <<"h", "i">>, 1)>>

InitPage == Start(PageStore, "production", "16")

\* One browser with the messages page open, and the server answering it.
NextPage ==
  \/ InitDbQuery
  \/ InitDbFail
  \/ InitDbCatch
  \/ Listen
  \/ ListenFails
  \/ EventLoopEmpty
  \/ Mount
  \/ Refresh
  \/ \E id \in {row.id : row \in SeqSet(PageStore)} : ClickDelete(id)
  \/ \E c \in calls : PreflightDelete(c)
  \/ \E c \in calls : Arrive(c)
  \/ \E c \in calls : Unreached(c)
  \/ \E r \in inflight : QueryFails(r)
  \/ \E r \in inflight : ExecSelectAll(r)
  \/ \E r \in inflight : ExecDelete(r)
  \/ \E r \in inflight : DeleteLost(r)
  \/ \E r \in inflight : RespondList(r)
  \/ \E r \in inflight : RespondDelete(r)
  \/ \E c \in calls : ListReturns(c)
  \/ \E c \in calls : DeleteReturns(c)

SpecPage == InitPage /\ [][NextPage]_vars

\* ================================================================== claims
\* The id the :id parameter of the last response denotes, 0 when it denotes none
\* (ids start at 1).
LastId == IF PgInt4(last.param, pg).ok THEN PgInt4(last.param, pg).v ELSE 0

\* s without its leading and trailing white space, said without recursion: the
\* part of s from its first to its last character that is not white space.
Inner(s) ==
  IF \A k \in 1..Len(s) : IsJsSpace(s[k]) THEN <<>>
  ELSE SubSeq(s,
         CHOOSE k \in 1..Len(s) :
           ~IsJsSpace(s[k]) /\ \A j \in 1..(k - 1) : IsJsSpace(s[j]),
         CHOOSE k \in 1..Len(s) :
           ~IsJsSpace(s[k]) /\ \A j \in (k + 1)..Len(s) : IsJsSpace(s[j]))

\* A field that is missing, or empty once trimmed.
Blank(v) == v.t \in {"undef", "null"} \/ (v.t = "str" /\ Inner(v.s) = <<>>)

\* C1: a POST whose name, email or message is missing or empty after trimming
\* is answered 400 and leaves the store unchanged. (Stated for the requests
\* that carry a body, with no query failing; what a request without a body
\* gets depends on the body parser, see ExpressJson.)
C1_BlankFieldRejected ==
  (last.op = "post" /\ last.body.present /\ last.err # "infra" /\
     (Blank(last.body.name) \/ Blank(last.body.email) \/ Blank(last.body.message)))
    => (last.status = 400 /\ ~last.changed)

\* The inputs of C2: three strings, not empty once trimmed, name and email of at
\* most 255 characters.
ValidInput(b) ==
  /\ b.present
  /\ b.name.t = "str" /\ b.email.t = "str" /\ b.message.t = "str"
  /\ Inner(b.name.s) # <<>> /\ Inner(b.email.s) # <<>> /\ Inner(b.message.s) # <<>>
  /\ Len(b.name.s) <= 255 /\ Len(b.email.s) <= 255

\* C2: a POST of valid input whose INSERT does not fail is answered 201 with a
\* record whose name, email and message are the trimmed inputs; that record is
\* the one stored under its id, and a GET of that id issued after the 201, while
\* the record is stored, answers 200 with exactly it.
C2_CreateStoresTrimmed ==
  /\ (last.op = "post" /\ ValidInput(last.body) /\ last.err = "none")
       => /\ last.status = 201
          /\ Len(last.data) = 1
          /\ last.data[1].name = Inner(last.body.name.s)
          /\ last.data[1].email = Inner(last.body.email.s)
          /\ last.data[1].message = Inner(last.body.message.s)
          /\ last.changed
          /\ last.data[1] \in SeqSet(issued)
          /\ \A row \in tbl : row.id = last.data[1].id => row = last.data[1]
  /\ (last.op = "get" /\ last.err = "none" /\ LastId \in last.postSeen
        /\ LastId \in Ids(tbl))
       => /\ last.status = 200
          /\ last.data = <<CHOOSE row \in tbl : row.id = LastId>>
          /\ last.data[1] \in SeqSet(issued)

C2_Witness ==
  /\ last.op = "get" /\ last.status = 200 /\ LastId \in last.postSeen
  /\ last.data[1].name = <<"A", "d", "a">>
  /\ \E i \in 1..Len(issued) : issued[i] = last.data[1]

StrictlyIncreasing(s) == \A i, j \in 1..Len(s) : i < j => s[i] < s[j]
IssuedIds == [i \in 1..Len(issued) |-> issued[i].id]

\* C3 as stated: no two messages ever get the same id, and the POSTs answered
\* 201 carry ids increasing in the order they were answered.
C3_IdsIncreaseByCompletion ==
  /\ StrictlyIncreasing(IssuedIds)
  /\ StrictlyIncreasing(postDone)

\* C3 amended: no two messages ever get the same id (none is reused after a
\* delete), and an insert issued after an earlier insert was answered gets an id
\* greater than that one's.
C3_IdsIncreaseByIssue ==
  /\ StrictlyIncreasing(IssuedIds)
  /\ \A r \in inflight :
       (r.op = "post" /\ r.pc = "result" /\ r.res.err = "none")
         => r.res.rows[1].id > SetMax(r.postSeen)
  /\ (last.op = "post" /\ last.status = 201) => last.data[1].id > SetMax(last.postSeen)

C3_Witness ==
  /\ last.op = "post" /\ last.status = 201
  /\ last.postSeen # {} /\ last.postSeen \subseteq SeqSet(delDone)
  /\ last.data[1].id > SetMax(last.postSeen)

\* C4: after inserts that ran one after another, each answered before the next
\* was sent, a list sent after the last answer returns the records in reverse
\* insertion order (ids descending), also when two of them have the same
\* created_at.
C4_ListNewestFirst ==
  (last.op = "list" /\ last.status = 200 /\ last.quiet /\ ~overlap)
    => \A i, j \in 1..Len(last.data) : i < j => last.data[i].id > last.data[j].id

\* C5: a GET whose :id denotes no stored message (never inserted, or deleted
\* before the GET was issued, whatever the form of the value) is answered 404
\* when the database is reachable.
C5_AbsentIdNotFound ==
  (last.op = "get" /\ last.err # "infra"
     /\ (LastId \notin Ids(SeqSet(issued)) \/ LastId \in last.delSeen))
    => last.status = 404

\* A DELETE of id has removed its record.
DeletedElsewhere(id) == id \in stmts.removed

\* C6: with the database reachable, a DELETE of an id whose POST was answered
\* removes the record and answers 200, unless another DELETE removed it first;
\* a GET issued after the 200 answers 404; a DELETE issued after the 200
\* answers 404, not 500, and leaves the store unchanged.
C6_DeleteThenAbsent ==
  /\ (last.op = "delete" /\ last.err = "none" /\ LastId \in last.postSeen)
       => \/ last.status = 200 /\ last.changed /\ LastId \notin Ids(tbl)
          \/ last.status = 404 /\ ~last.changed /\ DeletedElsewhere(LastId)
  /\ (last.op = "delete" /\ last.status = 200)
       => last.changed /\ LastId \notin Ids(tbl) /\ LastId \in SeqSet(delDone)
  /\ (last.op = "get" /\ last.err # "infra" /\ LastId \in last.delSeen)
       => last.status = 404
  /\ (last.op = "delete" /\ last.err # "infra" /\ LastId \in last.delSeen)
       => last.status = 404 /\ ~last.changed

C6_Witness ==
  /\ last.op = "delete" /\ last.status = 404
  /\ LastId \in last.delSeen /\ LastId \in last.postSeen

\* C7: a list answered 200 has count = data.length; when no POST or DELETE was
\* in flight with it, count is the number of 201s minus the number of DELETE
\* 200s and data holds exactly the records created and not deleted; a list
\* whose query succeeds is answered 200, also on an empty store.
C7_ListCount ==
  /\ (last.op = "list" /\ last.err = "none") => last.status = 200
  /\ (last.op = "list" /\ last.status = 200)
       => /\ last.count = Len(last.data)
          /\ last.quiet =>
               /\ last.count = Len(postDone) - Len(delDone)
               /\ SeqSet(last.data) =
                    {row \in SeqSet(issued) :
                       row.id \in SeqSet(postDone) \ SeqSet(delDone)}

\* C8: a POST answered 400 has issued no query.
C8_ValidationBeforeQuery ==
  (last.op = "post" /\ last.status = 400) => (last.nq = 0 /\ ~last.changed)

C8_Witness ==
  /\ last.op = "post" /\ last.status = 400 /\ last.nq = 0
  /\ Len(last.body.email.s) > EmailMax
  /\ tbl # {}

\* C9: a request whose query failed for an infrastructure reason is answered
\* 500 after that one query, and the failed query left the store as it was.
C9_FailureIs500 ==
  /\ last.err = "infra" => (last.status = 500 /\ last.nq = 1 /\ ~last.changed)
  /\ \A r \in inflight : r.res.err = "infra" => ~r.res.changed

InitFailed == \E i \in 1..Len(initLog) : initLog[i] = "failed"

\* C10 as stated: requests are served only once all four queries of initDb have
\* succeeded; after a failed one the process serves no request and exits, with
\* a code other than 0.
C10_FailureExitsNonZero ==
  /\ (phase = "listening" \/ nreq > 0)
       => (Len(initLog) = Len(InitSteps) /\ ~InitFailed)
  /\ InitFailed => (phase \in {"catch", "exited"} /\ nreq = 0)
  /\ (InitFailed /\ phase = "exited") => exitCode \notin {0, -1}

\* C10 amended: requests are served only once all four queries of initDb have
\* succeeded; after a failed one the process serves no request and exits, with
\* a code other than 0 unless a termination signal has been received (then the
\* code is 0 or 1).
C10_ListenAfterInit ==
  /\ (phase = "listening" \/ nreq > 0)
       => (Len(initLog) = Len(InitSteps) /\ ~InitFailed)
  /\ InitFailed => (phase \in {"catch", "exited"} /\ nreq = 0)
  /\ (InitFailed /\ phase = "exited") => (exitCode \in {0, 1} /\ (exitCode = 0 => sig > 0))

\* The third query of initDb has failed, with no signal received, and the
\* process has exited with code 1.
C10_Witness ==
  /\ phase = "exited" /\ exitCode = 1 /\ sig = 0
  /\ Len(initLog) = 3 /\ initLog[3] = "failed"

\* C11: once a termination signal has been received by the listening server the
\* process accepts no new request: no request that arrives after the signal
\* reaches a route handler (the requests received are those received when the
\* signal was delivered).
C11_NoRequestAfterSignal ==
  (sig > 0 /\ sigInit = Len(InitSteps)) => nreq = sigAt

\* C11, further: a process that exits after a signal received once initDb had
\* completed exits with code 0 and leaves no query of a request unanswered in
\* the database.
C11_ExitsCleanly ==
  (sig > 0 /\ sigInit = Len(InitSteps) /\ phase = "exited") =>
     exitCode = 0 /\ \A r \in inflight : r.pc = "query" => Late(r)

\* C12: at every moment at most 20 clients of the pool are checked out; a request
\* that finds every client checked out is queued, and one whose acquisition
\* timeout elapses is answered 500 while the process goes on listening.
C12_PoolBounded ==
  /\ Busy <= PoolMax
  /\ \A r \in inflight : r.pc = "wait" => r.res = NoRes
  /\ last.err = "timeout" => last.status = 500 /\ last.nq = 1 /\ ~last.changed
  /\ nreq > 0 => phase = "listening"

\* A request was answered 500 for the acquisition timeout while all 20 clients
\* are checked out and another request is queued.
C12_Witness ==
  /\ last.err = "timeout" /\ last.status = 500
  /\ Busy = PoolMax
  /\ Waiting # {}

\* C13: once the server listens no request ends the process: a body that
\* express.json() rejects, an exception thrown in a handler (a body that is
\* missing, a field that is not a string) and a query that rejects (the
\* database failing, an id the database does not read, a result lost), on any
\* route, are each answered, with 500, and the process goes on listening with
\* its exit code unset.
C13_RequestsNeverCrash ==
  /\ nreq > 0 => phase = "listening" /\ exitCode = -1
  /\ last.op # "none" => last.status \in {200, 201, 204, 400, 404, 500}
  /\ last.err \in {"parse", "infra", "input"} =>
       last.status = 500 /\ last.resp.success = "false"
  /\ (/\ last.op = "post" /\ last.body.present /\ last.err = "none"
      /\ ~(Falsy(last.body.name) \/ Falsy(last.body.email) \/ Falsy(last.body.message))
      /\ ~(LengthOver(last.body.name, NameMax) \/ LengthOver(last.body.email, EmailMax))
      /\ \/ last.body.name.t # "str"
         \/ last.body.email.t # "str"
         \/ last.body.message.t # "str")
     => last.status = 500 /\ last.resp.success = "false"
  /\ (last.op = "post" /\ ~last.body.present /\ last.err = "none")
       => last.status \in {400, 500}

\* The INSERT of a POST has rejected and the handler has answered 500 from its
\* catch block; the server still listens and another request, received since,
\* is suspended in its query.
C13_Witness ==
  /\ last.op = "post" /\ last.err = "infra" /\ last.status = 500
  /\ phase = "listening" /\ exitCode = -1
  /\ nreq = MaxRouteReqs
  /\ \E r \in inflight : r.rid = MaxRouteReqs /\ r.late = FALSE

\* C14: in a mode other than 'development' no response body carries the text of
\* the exception caught (error.message), on any endpoint.
C14_ErrorTextOnlyInDevelopment ==
  mode # "development" =>
    /\ last.resp.error # "errtext"
    /\ last.resp.message # "errtext"
    /\ last.resp.details # "errtext"

\* C15: every response with status 400, 404 or 500 has success false, a string
\* error and a string message.
C15_ErrorBodyShape ==
  last.status \in {400, 404, 500} =>
    /\ last.resp.success = "false"
    /\ last.resp.error \in {"text", "errtext"}
    /\ last.resp.message \in {"text", "errtext"}

\* C16: a record in the table is the record as it was inserted, with updated_at
\* equal to created_at, and a record that was inserted is in the table unless a
\* DELETE of its id has removed it: create, delete, get, list and the
\* statements of initDb (run on a table that holds records) leave every other
\* record as it was.
C16_RecordsImmutable ==
  /\ tbl \subseteq SeqSet(issued)
  /\ \A a, b \in tbl : a.id = b.id => a = b
  /\ \A row \in tbl : row.updated_at = row.created_at
  /\ \A i \in 1..Len(issued) : issued[i] \in tbl \/ issued[i].id \in stmts.removed
  /\ \A row \in tbl : row.id \notin stmts.removed

\* initDb has run on a table that held a record; a second record has been
\* created and deleted since, and the first is still there.
C16_Witness ==
  /\ phase = "listening" /\ Len(initLog) = Len(InitSteps)
  /\ Len(issued) = 2 /\ issued[1] = OldStore[1]
  /\ last.op = "delete" /\ last.status = 200 /\ LastId = issued[2].id
  /\ tbl = {OldStore[1]}

\* No statement of the run has committed with its result lost on the way.
NoResultLost == stmts.lostInsert = {} /\ stmts.lostDelete = {}

\* C17: of the DELETEs of one stored id that are in flight together exactly one
\* is answered 200 and the others 404 (the database not failing); POSTs in
\* flight together each insert one record of its own; and when no request is in
\* flight, and the database has not failed, the table holds the records of the
\* POSTs answered 201 less those of the DELETEs answered 200, as after the same
\* requests one after another.
C17_ConcurrentWritesSerialize ==
  /\ \A i, j \in 1..Len(delDone) : i # j => delDone[i] # delDone[j]
  /\ \A i, j \in 1..Len(issued) : i # j => issued[i].id # issued[j].id
  /\ \A i, j \in 1..Len(postDone) : i # j => postDone[i] # postDone[j]
  /\ (/\ last.op = "delete" /\ last.err = "none" /\ LastId \in last.postSeen
      /\ last.status # 200)
     => /\ last.status = 404
        /\ LastId \in stmts.removed
        /\ LastId \notin stmts.lostDelete
             => \/ LastId \in SeqSet(delDone)
                \/ \E r \in inflight : /\ r.op = "delete" /\ r.res.rowCount = 1
                                        /\ PgInt4(r.param, pg).v = LastId
  /\ \A r \in inflight :
       (r.op = "post" /\ r.pc = "result" /\ r.res.err = "none")
         => /\ Len(r.res.rows) = 1
            /\ Cardinality({i \in 1..Len(issued) : issued[i] = r.res.rows[1]}) = 1
            /\ \A q \in inflight \ {r} :
                 (q.op = "post" /\ q.pc = "result" /\ q.res.err = "none")
                   => q.res.rows[1].id # r.res.rows[1].id
  /\ (inflight = {} /\ NoResultLost) =>
       {row.id : row \in tbl} = SeqSet(postDone) \ SeqSet(delDone)

\* Two DELETEs of one stored id were in flight together: one has been answered
\* 200 and now the other, which arrived before that answer, is answered 404.
C17_Witness ==
  /\ last.op = "delete" /\ last.err = "none" /\ last.status = 404
  /\ LastId \in last.postSeen
  /\ LastId \in SeqSet(delDone) /\ LastId \notin last.delSeen

\* C18: while no query fails for a reason of the database or the pool, a request
\* to the message endpoints is answered 200, 201, 400 or 404 and never 500,
\* whatever JSON values its body gives to name, email and message and whatever
\* string its :id is.
C18_NoServerErrorOnInput ==
  (/\ last.op \in {"list", "get", "post", "delete"}
   /\ last.err \in {"none", "input"}
   /\ last.op = "post" => last.body.present)
  => last.status \in {200, 201, 400, 404}

\* C19: once a DELETE has succeeded and the page has removed the message from
\* its list, no later state of the page displays that message.
C19_DeletedStaysGone ==
  \A i \in 1..Len(page.messages) : page.messages[i].id \notin gone

\* C19, further: an id is in deletingIds, once, exactly while a DELETE of it
\* has not returned, whether that DELETE succeeds or fails.
C19_DeletingIdsTrackCalls ==
  /\ SeqSet(page.deletingIds) = {c.id : c \in {d \in calls : d.kind = "delete"}}
  /\ \A i, j \in 1..Len(page.deletingIds) :
       i # j => page.deletingIds[i] # page.deletingIds[j]

====
